---- MODULE Spec2Model ----
(***************************************************************************)
(* Model of migrate_index.py: the reindex parameter estimator, the         *)
(* asynchronous reindex launch and task tracker, the lookup of the latest  *)
(* index of an alias with the rename of a bare index, the alias cutover    *)
(* and the main workflow that strings them together, run against an        *)
(* Elasticsearch cluster whose answers (and failures) are chosen           *)
(* nondeterministically.                                                   *)
(***************************************************************************)
EXTENDS Integers, FiniteSets, Sequences, TLC

(* ---------------------------------------------------------------------- *)
(* Bounds of the model                                                     *)
(* ---------------------------------------------------------------------- *)

\* largest timeout (seconds) of a direct call of track_task_status
MaxTimeout == 5

\* largest poll interval (seconds) of a direct call of track_task_status
MaxPollInterval == 3

\* how many times in a row rename_index_if_needed is called directly
MaxRenameCalls == 2

(* ---------------------------------------------------------------------- *)
(* Names                                                                   *)
(* ---------------------------------------------------------------------- *)

\* --alias
Alias == "products"

\* --new_index
NewIndex == "products_new"

\* --suffix
Suffix == "_backup"

\* name + suffix
Suffixed(name) == name \o Suffix

\* the index names the cluster may hold
Names ==
    {"products", "products_v1", "products_v2", "products_new",
     "products_backup"}

\* values of --old_index
OldIndexArgs == {"products_v1"}

\* document counts a source index may hold: every threshold of the
\* estimator with its neighbours, the empty index and an oversized one
DocCounts ==
    {0, 1, 50000, 99999, 100000, 999999, 1000000, 4999999, 5000000,
     49999999, 50000000, 99999999, 100000000, 150000000}

\* document counts of the runs that look the old index up: an empty
\* index, one below the first threshold and an oversized one
LookupDocCounts == {0, 50000, 150000000}

\* settings.index.creation_date values, strings of decimal digits
CreationDates == {<<9>>, <<1, 0>>}

\* creation_date of the indexes that exist from the start
EarlyDate == <<9>>

\* creation_date of an index created during the run
LateDate == <<1, 1>>

VARIABLES
    entry,            \* the function called: "main", "track", "estimate" or "rename"
    pc,               \* position of the control flow
    indices,          \* cluster: the indexes that exist
    docs,             \* cluster: document count of each index
    aliasBound,       \* cluster: the indexes the alias is bound to
    aliasWrite,       \* cluster: the bound indexes flagged is_write_index
    creation,         \* cluster: settings.index.creation_date of each index
    old_index,        \* main: args.old_index
    delete_old,       \* main: args.delete_old
    renameCalls,      \* direct calls of rename_index_if_needed made so far
    exitCode,         \* -1 while running, else the process exit code
    uncaught,         \* TRUE when the process died of an uncaught exception
    source_index,     \* reindex_data_async: source_index
    dest_index,       \* reindex_data_async: dest_index
    caller,           \* reindex_data_async: who called it, "main" or "rename"
    countFailed,      \* get_doc_count: TRUE when es.count raised
    doc_count,        \* reindex_data_async: doc_count (-1 before it is read)
    slices,           \* reindex_data_async: slices
    timeout,          \* reindex_data_async / track_task_status: timeout
    poll_interval,    \* reindex_data_async / track_task_status: poll_interval
    reindexResult,    \* return value of reindex_data_async ("none" before)
    elapsed,          \* track_task_status: elapsed
    lastStatus,       \* track_task_status: answer of the last es.tasks.get
    lastSlice,        \* track_task_status: outcome of the last es.tasks.list
    trackResult,      \* return value of track_task_status ("none" before)
    old_indices,      \* update_alias_to_new_index: old_indices
    bound0,           \* alias bindings when update_alias_to_new_index was entered
    cutoverResult,    \* outcome of update_alias_to_new_index ("none" before)
    reindexCalls,     \* requests issued by this reindex_data_async: es.reindex
    statusPolls,      \* requests issued by this reindex_data_async: es.tasks.get
    tasksListCalls,   \* requests issued by this reindex_data_async: es.tasks.list
    aliasRequests,    \* requests issued: es.indices.update_aliases (their actions)
    index_names,      \* get_latest_index_by_alias: index_names
    latest_index,     \* get_latest_index_by_alias: latest_index
    resolved,         \* return value of get_latest_index_by_alias ("none" before)
    requests,         \* the mutating requests issued, in order
    createResult,     \* outcome of main's create_new_index ("none" before)
    deleteResult      \* outcome of main's delete_old_index ("none" before)

vars == <<entry, pc, indices, docs, aliasBound, aliasWrite, old_index,
          delete_old, exitCode, uncaught, source_index, dest_index,
          countFailed, doc_count, slices, timeout, poll_interval,
          reindexResult, elapsed, lastStatus, lastSlice, trackResult,
          old_indices, bound0, cutoverResult, reindexCalls, statusPolls,
          tasksListCalls, aliasRequests, creation, renameCalls, caller,
          index_names, latest_index, resolved, requests, createResult,
          deleteResult>>

clusterVars == <<indices, docs, aliasBound, aliasWrite, creation>>
mainVars == <<entry, old_index, delete_old, renameCalls>>
reindexVars == <<source_index, dest_index, caller, countFailed, doc_count,
                 slices, timeout, poll_interval, reindexResult, reindexCalls>>
trackVars == <<elapsed, lastStatus, lastSlice, trackResult, statusPolls,
               tasksListCalls>>
cutoverVars == <<old_indices, bound0, cutoverResult, aliasRequests>>
lookupVars == <<index_names, latest_index, resolved>>
stepVars == <<createResult, deleteResult>>

(* ---------------------------------------------------------------------- *)
(* Pure functions of the program                                           *)
(* ---------------------------------------------------------------------- *)

\* the estimator with the first threshold compared by <=
estimate_first_threshold_inclusive(n) ==
    IF n <= 100000 THEN <<1, 300, 5>>
    ELSE IF n < 1000000 THEN <<4, 600, 10>>
    ELSE IF n < 5000000 THEN <<8, 1800, 15>>
    ELSE IF n < 50000000 THEN <<16, 7200, 30>>
    ELSE IF n < 100000000 THEN <<32, 10800, 45>>
    ELSE <<0, 0, 0>>

\* estimate_reindex_params: <<slices, timeout, poll_interval>>
estimate_reindex_params(n) ==
    IF n < 100000 THEN <<1, 300, 5>>
    ELSE IF n < 1000000 THEN <<4, 600, 10>>
    ELSE IF n < 5000000 THEN <<8, 1800, 15>>
    ELSE IF n < 50000000 THEN <<16, 7200, 30>>
    ELSE IF n < 100000000 THEN <<32, 10800, 45>>
    ELSE <<0, 0, 0>>

\* get_doc_count: what it returns when es.count raised
DocCountOnFailure == 0

\* the empty-source return left out
NothingToMigrateNever(n) == n < 0

\* reindex_data_async: "if doc_count == 0: return True"
NothingToMigrate(n) == n = 0

\* the refusal of an oversized source left out
RefusesNever(s) == s < 0

\* reindex_data_async: "if slices == 0: return False"
RefusesAutoReindex(s) == s = 0

\* the loop condition compared by <=
LoopContinuesInclusive(e, t) == e <= t

\* track_task_status: "while elapsed < timeout"
LoopContinues(e, t) == e < t

\* a verdict that takes a task completed with an error for a success
StatusVerdictErrorIgnored(resp) ==
    CASE resp = "completed" -> "True"
      [] resp = "completed_error" -> "True"
      [] resp = "exception" -> "False"
      [] OTHER -> "none"

\* a verdict that polls again after a status query that raised
StatusVerdictRetries(resp) ==
    CASE resp = "completed" -> "True"
      [] resp = "completed_error" -> "False"
      [] OTHER -> "none"

\* a verdict that goes on polling a task that completed with an error
StatusVerdictPollsOn(resp) ==
    CASE resp = "completed" -> "True"
      [] resp = "exception" -> "False"
      [] OTHER -> "none"

\* track_task_status: what one answer of es.tasks.get makes the function
\* return; "none" when the loop goes on
StatusVerdict(resp) ==
    CASE resp = "completed" -> "True"
      [] resp = "completed_error" -> "False"
      [] resp = "exception" -> "False"
      [] OTHER -> "none"

\* int(s) of a string of decimal digits
RECURSIVE ParseInt(_)
ParseInt(ds) ==
    IF ds = <<>> THEN 0
    ELSE 10 * ParseInt(SubSeq(ds, 1, Len(ds) - 1)) + ds[Len(ds)]

\* a sort key that orders the creation dates as strings: the rank of the
\* first digit decides between strings of different lengths
SortKeyAsString(date) ==
    100 * date[1] + (IF Len(date) > 1 THEN date[2] + 1 ELSE 0)

\* get_latest_index_by_alias: key=lambda x: int(x[1])
SortKey(date) == ParseInt(date)

\* get_latest_index_by_alias: sorted(..., reverse=True)[0][0]; the sort is
\* stable, so among equal keys the first of index_names comes first
LatestIndex(names, dates) ==
    LET top == CHOOSE k \in 1..Len(names) :
                  /\ \A j \in 1..Len(names) :
                        SortKey(dates[names[j]]) <= SortKey(dates[names[k]])
                  /\ \A j \in 1..(k - 1) :
                        SortKey(dates[names[j]]) < SortKey(dates[names[k]])
    IN  names[top]

\* a mutating request as the cluster receives it
Request(op, index, source, n) ==
    [op |-> op, index |-> index, source |-> source, slices |-> n]

\* list(existing.keys())
RECURSIVE KeysList(_)
KeysList(S) ==
    IF S = {} THEN <<>>
    ELSE LET x == CHOOSE y \in S : TRUE
         IN  <<x>> \o KeysList(S \ {x})

\* an add action without the write-index flag
AddActionNoWriteIndex(new) ==
    [op |-> "add", index |-> new, is_write_index |-> FALSE]

\* update_alias_to_new_index: the add action
AddAction(new) ==
    [op |-> "add", index |-> new, is_write_index |-> TRUE]

\* a request that adds new_index and removes nothing
CutoverActionsAddOnly(old, new) == <<AddAction(new)>>

\* update_alias_to_new_index: the actions of the one update_aliases request
CutoverActions(old, new) ==
    [k \in 1..Len(old) |->
        [op |-> "remove", index |-> old[k], is_write_index |-> FALSE]]
    \o <<AddAction(new)>>

(* ---------------------------------------------------------------------- *)
(* The cluster's side of es.indices.update_aliases                         *)
(* ---------------------------------------------------------------------- *)

\* bindings of the alias after the actions, applied in order
RECURSIVE BoundAfter(_, _)
BoundAfter(acts, b) ==
    IF acts = <<>> THEN b
    ELSE LET a == Head(acts)
         IN  BoundAfter(Tail(acts),
                 IF a.op = "remove" THEN b \ {a.index} ELSE b \cup {a.index})

\* write-indexes of the alias after the actions, applied in order
RECURSIVE WriteAfter(_, _)
WriteAfter(acts, w) ==
    IF acts = <<>> THEN w
    ELSE LET a == Head(acts)
         IN  WriteAfter(Tail(acts),
                 IF a.op = "remove" THEN w \ {a.index}
                 ELSE IF a.is_write_index THEN w \cup {a.index}
                 ELSE w \ {a.index})

\* the cluster accepts the request: every index named exists, no index has
\* the alias's name, and the alias is left with at most one write-index
AliasActionsAccepted(acts) ==
    /\ \A k \in 1..Len(acts) : acts[k].index \in indices
    /\ Alias \notin indices
    /\ Cardinality(WriteAfter(acts, aliasWrite)) <= 1

(* ---------------------------------------------------------------------- *)
(* Initial states                                                          *)
(* ---------------------------------------------------------------------- *)

\* what the answers of the cluster to es.tasks.get can be
StatusResponses == {"running", "completed", "completed_error", "exception"}

\* what a call of get_reindex_slice_status can meet
SliceOutcomes == {"found", "not_found", "exception"}

\* the locals no function has assigned yet
LocalsInit ==
    /\ exitCode = -1
    /\ uncaught = FALSE
    /\ countFailed = FALSE
    /\ slices = 0
    /\ reindexResult = "none"
    /\ elapsed = 0
    /\ lastStatus = "none"
    /\ lastSlice = "none"
    /\ trackResult = "none"
    /\ old_indices = <<>>
    /\ bound0 = {}
    /\ cutoverResult = "none"
    /\ reindexCalls = 0
    /\ statusPolls = 0
    /\ tasksListCalls = 0
    /\ aliasRequests = <<>>
    /\ renameCalls = 0
    /\ caller = "none"
    /\ index_names = <<>>
    /\ latest_index = ""
    /\ resolved = "none"
    /\ requests = <<>>
    /\ createResult = "none"
    /\ deleteResult = "none"

\* the script is started with --alias, --old_index and --new_index
InitMain ==
    /\ entry = "main"
    /\ pc = "main"
    /\ indices \in SUBSET (Names \ {Suffixed(Alias)})
    /\ aliasBound \in SUBSET (indices \ {Alias})
    /\ Alias \in indices => aliasBound = {}
    /\ aliasWrite \in SUBSET aliasBound
    /\ Cardinality(aliasWrite) <= 1
    /\ creation = [i \in Names |-> EarlyDate]
    /\ old_index \in OldIndexArgs
    /\ delete_old \in BOOLEAN
    /\ \E n \in DocCounts :
          docs = [i \in Names |->
                    IF i = old_index /\ i \in indices THEN n ELSE 0]
    /\ source_index = ""
    /\ dest_index = ""
    /\ timeout = 0
    /\ poll_interval = 0
    /\ doc_count = -1
    /\ LocalsInit

\* a cluster in which the old index has to be looked up: the alias is
\* bound to some of products_v1 and products_v2, or is absent, with or
\* without a bare index of its name and an index of the suffixed name;
\* every index holds the same number of documents
InitCluster ==
    /\ indices \in SUBSET (Names \ {NewIndex})
    /\ aliasBound \in SUBSET (indices \cap {"products_v1", "products_v2"})
    /\ Alias \in indices => aliasBound = {}
    /\ aliasWrite \in SUBSET aliasBound
    /\ Cardinality(aliasWrite) <= 1
    /\ creation \in [Names -> CreationDates]
    /\ \A i \in Names \ aliasBound : creation[i] = EarlyDate
    /\ Cardinality(aliasBound) < 2 => \A i \in Names : creation[i] = EarlyDate
    /\ \E n \in LookupDocCounts :
          docs = [i \in Names |-> IF i \in indices THEN n ELSE 0]

\* the script is started with --alias and --new_index only
InitLookup ==
    /\ entry = "main"
    /\ pc = "main"
    /\ InitCluster
    /\ old_index = ""
    /\ delete_old \in BOOLEAN
    /\ source_index = ""
    /\ dest_index = ""
    /\ timeout = 0
    /\ poll_interval = 0
    /\ doc_count = -1
    /\ LocalsInit

\* rename_index_if_needed(alias, mapping, suffix) is called directly
InitRename ==
    /\ entry = "rename"
    /\ pc = "rename_index_if_needed"
    /\ InitCluster
    /\ old_index = ""
    /\ delete_old = FALSE
    /\ source_index = ""
    /\ dest_index = ""
    /\ timeout = 0
    /\ poll_interval = 0
    /\ doc_count = -1
    /\ LocalsInit

\* track_task_status is called on a launched task
InitTrack ==
    /\ entry = "track"
    /\ pc = "track_task_status"
    /\ indices = {"products_v1", NewIndex}
    /\ aliasBound = {"products_v1"}
    /\ aliasWrite = {}
    /\ creation = [i \in Names |-> EarlyDate]
    /\ old_index = "products_v1"
    /\ delete_old = FALSE
    /\ docs = [i \in Names |-> IF i = "products_v1" THEN 1 ELSE 0]
    /\ source_index = "products_v1"
    /\ dest_index = NewIndex
    /\ timeout \in 0..MaxTimeout
    /\ poll_interval \in 1..MaxPollInterval
    /\ doc_count = -1
    /\ LocalsInit

\* estimate_reindex_params is called on a document count
InitEstimate ==
    /\ entry = "estimate"
    /\ pc = "estimate_reindex_params"
    /\ indices = {}
    /\ aliasBound = {}
    /\ aliasWrite = {}
    /\ creation = [i \in Names |-> EarlyDate]
    /\ old_index = ""
    /\ delete_old = FALSE
    /\ docs = [i \in Names |-> 0]
    /\ source_index = ""
    /\ dest_index = ""
    /\ timeout = 0
    /\ poll_interval = 0
    /\ doc_count \in DocCounts
    /\ LocalsInit

Init == InitMain \/ InitLookup \/ InitRename \/ InitTrack \/ InitEstimate

(* ---------------------------------------------------------------------- *)
(* Calls and returns                                                       *)
(* ---------------------------------------------------------------------- *)

\* the process ends: sys.exit(code), or an exception nobody catches
Exit(code, byException) ==
    /\ pc' = "done"
    /\ exitCode' = code
    /\ uncaught' = byException

\* reindex_data_async(src, dst) is entered with fresh locals
CallReindex(src, dst, who) ==
    /\ pc' = "reindex_data_async"
    /\ source_index' = src
    /\ dest_index' = dst
    /\ caller' = who
    /\ countFailed' = FALSE
    /\ doc_count' = -1
    /\ slices' = 0
    /\ timeout' = 0
    /\ poll_interval' = 0
    /\ reindexResult' = "none"
    /\ reindexCalls' = 0
    /\ elapsed' = 0
    /\ lastStatus' = "none"
    /\ lastSlice' = "none"
    /\ trackResult' = "none"
    /\ statusPolls' = 0
    /\ tasksListCalls' = 0

\* a return after which the caller goes on whatever the result
ReindexReturnsUnchecked(res) ==
    /\ reindexResult' = res
    /\ pc' = IF caller = "rename" THEN "rename_delete"
             ELSE "update_alias_to_new_index"
    /\ UNCHANGED <<exitCode, uncaught>>

\* reindex_data_async returns res: main goes on to the cutover and
\* rename_index_if_needed to the delete of the original index; on False
\* both end the process with sys.exit(1)
ReindexReturns(res) ==
    /\ reindexResult' = res
    /\ IF res = "True"
       THEN /\ pc' = IF caller = "rename" THEN "rename_delete"
                     ELSE "update_alias_to_new_index"
            /\ UNCHANGED <<exitCode, uncaught>>
       ELSE Exit(1, FALSE)

\* track_task_status returns res: to reindex_data_async, which returns it
\* as it is, or to the direct caller
TrackReturns(res) ==
    /\ trackResult' = res
    /\ IF entry # "track"
       THEN ReindexReturns(res)
       ELSE /\ pc' = "done"
            /\ UNCHANGED <<exitCode, uncaught, reindexResult>>

\* get_latest_index_by_alias returns value to main, which takes it as
\* old_index or, on None, ends the process with sys.exit(1)
LookupReturns(value) ==
    /\ resolved' = value
    /\ IF value = "None"
       THEN /\ Exit(1, FALSE)
            /\ UNCHANGED old_index
       ELSE /\ old_index' = value
            /\ pc' = "create_new_index"
            /\ UNCHANGED <<exitCode, uncaught>>

\* rename_index_if_needed returns: get_latest_index_by_alias then returns
\* alias_name + suffix
RenameReturns ==
    IF entry = "main"
    THEN LookupReturns(Suffixed(Alias))
    ELSE /\ pc' = "rename_returned"
         /\ UNCHANGED <<exitCode, uncaught, resolved, old_index>>

\* an exception leaves rename_index_if_needed: get_latest_index_by_alias
\* catches it and returns None
RenameRaises ==
    IF entry = "main"
    THEN LookupReturns("None")
    ELSE /\ Exit(1, TRUE)
         /\ UNCHANGED <<resolved, old_index>>

\* rename_index_if_needed ends the process with sys.exit(1)
RenameExits ==
    /\ Exit(1, FALSE)
    /\ UNCHANGED <<resolved, old_index>>

(* ---------------------------------------------------------------------- *)
(* estimate_reindex_params, called directly                                *)
(* ---------------------------------------------------------------------- *)

\* slices, timeout, poll_interval = estimate_reindex_params(doc_count)
EstimateCall ==
    /\ pc = "estimate_reindex_params"
    /\ LET p == estimate_reindex_params(doc_count)
       IN  /\ slices' = p[1]
           /\ timeout' = p[2]
           /\ poll_interval' = p[3]
    /\ pc' = "done"
    /\ UNCHANGED <<clusterVars, mainVars, exitCode, uncaught, source_index,
                   dest_index, caller, countFailed, doc_count, reindexResult,
                   reindexCalls, trackVars, cutoverVars, lookupVars,
                   requests, stepVars>>

(* ---------------------------------------------------------------------- *)
(* main, up to the migration                                               *)
(* ---------------------------------------------------------------------- *)

\* main: with --old_index nothing is looked up, without it
\* get_latest_index_by_alias is called
MainStart ==
    /\ pc = "main"
    /\ pc' = IF old_index # "" THEN "create_new_index"
             ELSE "get_latest_index_by_alias"
    /\ UNCHANGED <<clusterVars, mainVars, exitCode, uncaught, reindexVars,
                   trackVars, cutoverVars, lookupVars, requests, stepVars>>

\* main, step 1: create_new_index(new_index, mapping), then the call of
\* reindex_data_async(old_index, new_index)
CreateNewIndex ==
    /\ pc = "create_new_index"
    /\ requests' = Append(requests, Request("create", NewIndex, "", 0))
    /\ \E r \in {"created", "RequestError", "exception"} :
          CASE r = "created" ->
                  /\ NewIndex \notin indices
                  /\ indices' = indices \cup {NewIndex}
                  /\ docs' = [docs EXCEPT ![NewIndex] = 0]
                  /\ creation' = [creation EXCEPT ![NewIndex] = LateDate]
                  /\ createResult' = "True"
                  /\ CallReindex(old_index, NewIndex, "main")
                  /\ UNCHANGED <<exitCode, uncaught>>
            [] r = "RequestError" ->
                  /\ createResult' = "False"
                  /\ Exit(1, FALSE)
                  /\ UNCHANGED <<indices, docs, creation, reindexVars,
                                 trackVars>>
            [] r = "exception" ->
                  /\ createResult' = "raised"
                  /\ Exit(1, TRUE)
                  /\ UNCHANGED <<indices, docs, creation, reindexVars,
                                 trackVars>>
    /\ UNCHANGED <<aliasBound, aliasWrite, mainVars, cutoverVars, lookupVars,
                   deleteResult>>

(* ---------------------------------------------------------------------- *)
(* get_latest_index_by_alias                                               *)
(* ---------------------------------------------------------------------- *)

\* es_conn.indices.exists_alias(name=alias_name): without the alias
\* rename_index_if_needed is called; an exception makes the function
\* return None
LookupExistsAlias ==
    /\ pc = "get_latest_index_by_alias"
    /\ \E r \in {"True", "False", "exception"} :
          /\ r = "True" => aliasBound # {}
          /\ r = "False" => aliasBound = {}
          /\ IF r = "exception"
             THEN LookupReturns("None")
             ELSE /\ pc' = IF r = "True" THEN "get_alias"
                           ELSE "rename_index_if_needed"
                  /\ UNCHANGED <<exitCode, uncaught, resolved, old_index>>
    /\ UNCHANGED <<clusterVars, entry, delete_old, renameCalls, reindexVars,
                   trackVars, cutoverVars, index_names, latest_index,
                   requests, stepVars>>

\* es_conn.indices.get_alias(index="*", name=alias_name): the bound
\* indexes; an answer that names no index makes the function return
\* alias_name, an exception None
LookupGetAlias ==
    /\ pc = "get_alias"
    /\ \E r \in {"bindings", "empty", "exception"} :
          CASE r = "bindings" ->
                  /\ aliasBound # {}
                  /\ index_names' = KeysList(aliasBound)
                  /\ pc' = "indices_get"
                  /\ UNCHANGED <<exitCode, uncaught, resolved, old_index>>
            [] r = "empty" ->
                  /\ index_names' = <<>>
                  /\ LookupReturns(Alias)
            [] r = "exception" ->
                  /\ LookupReturns("None")
                  /\ UNCHANGED index_names
    /\ UNCHANGED <<clusterVars, entry, delete_old, renameCalls, reindexVars,
                   trackVars, cutoverVars, latest_index, requests, stepVars>>

\* es_conn.indices.get of the bound indexes and the choice of the one
\* created last
LookupGetMetadata ==
    /\ pc = "indices_get"
    /\ \E r \in {"metadata", "exception"} :
          IF r = "metadata"
          THEN /\ \A k \in 1..Len(index_names) : index_names[k] \in indices
               /\ latest_index' = LatestIndex(index_names, creation)
               /\ pc' = "indices_stats"
               /\ UNCHANGED <<exitCode, uncaught, resolved, old_index>>
          ELSE /\ LookupReturns("None")
               /\ UNCHANGED latest_index
    /\ UNCHANGED <<clusterVars, entry, delete_old, renameCalls, reindexVars,
                   trackVars, cutoverVars, index_names, requests, stepVars>>

\* es_conn.indices.stats(index=latest_index) and the return of
\* latest_index
LookupStats ==
    /\ pc = "indices_stats"
    /\ \E r \in {"stats", "exception"} :
          /\ r = "stats" => latest_index \in indices
          /\ LookupReturns(IF r = "stats" THEN latest_index ELSE "None")
    /\ UNCHANGED <<clusterVars, entry, delete_old, renameCalls, reindexVars,
                   trackVars, cutoverVars, index_names, latest_index,
                   requests, stepVars>>

(* ---------------------------------------------------------------------- *)
(* rename_index_if_needed                                                  *)
(* ---------------------------------------------------------------------- *)

\* check_index_exists: what it returns when es.indices.exists raised
ExistsOnFailure == FALSE

\* check_index_exists(name) for the answer r of es.indices.exists
check_index_exists(r) == IF r = "exception" THEN ExistsOnFailure ELSE r = "True"

\* a probe that takes an alias for a bare index and goes on to create the
\* suffixed index
RenameProbeAliasRenamesAnyway ==
    /\ pc = "rename_index_if_needed"
    /\ \E r \in {"alias", "NotFoundError", "exception"} :
          /\ r = "alias" => aliasBound # {}
          /\ r = "NotFoundError" => aliasBound = {}
          /\ CASE r = "alias" ->
                     /\ pc' = "rename_create"
                     /\ UNCHANGED <<exitCode, uncaught, resolved, old_index>>
               [] r = "NotFoundError" ->
                     /\ pc' = "check_index_exists"
                     /\ UNCHANGED <<exitCode, uncaught, resolved, old_index>>
               [] r = "exception" -> RenameRaises
    /\ UNCHANGED <<clusterVars, entry, delete_old, renameCalls, reindexVars,
                   trackVars, cutoverVars, index_names, latest_index,
                   requests, stepVars>>

\* es.indices.get_alias(name=name): an alias needs no rename; only
\* NotFoundError leads on to the checks of the index
RenameProbeAlias ==
    /\ pc = "rename_index_if_needed"
    /\ \E r \in {"alias", "NotFoundError", "exception"} :
          /\ r = "alias" => aliasBound # {}
          /\ r = "NotFoundError" => aliasBound = {}
          /\ CASE r = "alias" -> RenameReturns
               [] r = "NotFoundError" ->
                     /\ pc' = "check_index_exists"
                     /\ UNCHANGED <<exitCode, uncaught, resolved, old_index>>
               [] r = "exception" -> RenameRaises
    /\ UNCHANGED <<clusterVars, entry, delete_old, renameCalls, reindexVars,
                   trackVars, cutoverVars, index_names, latest_index,
                   requests, stepVars>>

\* check_index_exists(name): without an index of that name the function
\* returns
RenameCheckName ==
    /\ pc = "check_index_exists"
    /\ \E r \in {"True", "False", "exception"} :
          /\ r = "True" => Alias \in indices
          /\ r = "False" => Alias \notin indices
          /\ IF check_index_exists(r)
             THEN /\ pc' = "check_new_name"
                  /\ UNCHANGED <<exitCode, uncaught, resolved, old_index>>
             ELSE RenameReturns
    /\ UNCHANGED <<clusterVars, entry, delete_old, renameCalls, reindexVars,
                   trackVars, cutoverVars, index_names, latest_index,
                   requests, stepVars>>

\* check_index_exists(new_name): an index of the suffixed name ends the
\* process
RenameCheckNew ==
    /\ pc = "check_new_name"
    /\ \E r \in {"True", "False", "exception"} :
          /\ r = "True" => Suffixed(Alias) \in indices
          /\ r = "False" => Suffixed(Alias) \notin indices
          /\ IF check_index_exists(r)
             THEN RenameExits
             ELSE /\ pc' = "rename_create"
                  /\ UNCHANGED <<exitCode, uncaught, resolved, old_index>>
    /\ UNCHANGED <<clusterVars, entry, delete_old, renameCalls, reindexVars,
                   trackVars, cutoverVars, index_names, latest_index,
                   requests, stepVars>>

\* create_new_index(new_name, mapping), then the call of
\* reindex_data_async(name, new_name)
RenameCreate ==
    /\ pc = "rename_create"
    /\ requests' = Append(requests, Request("create", Suffixed(Alias), "", 0))
    /\ \E r \in {"created", "RequestError", "exception"} :
          CASE r = "created" ->
                  /\ Suffixed(Alias) \notin indices
                  /\ indices' = indices \cup {Suffixed(Alias)}
                  /\ docs' = [docs EXCEPT ![Suffixed(Alias)] = 0]
                  /\ creation' = [creation EXCEPT ![Suffixed(Alias)] = LateDate]
                  /\ CallReindex(Alias, Suffixed(Alias), "rename")
                  /\ UNCHANGED <<exitCode, uncaught, resolved, old_index>>
            [] r = "RequestError" ->
                  /\ RenameExits
                  /\ UNCHANGED <<indices, docs, creation, reindexVars,
                                 trackVars>>
            [] r = "exception" ->
                  /\ RenameRaises
                  /\ UNCHANGED <<indices, docs, creation, reindexVars,
                                 trackVars>>
    /\ UNCHANGED <<aliasBound, aliasWrite, entry, delete_old, renameCalls,
                   cutoverVars, index_names, latest_index, stepVars>>

\* es.indices.delete(index=name) after a migration that returned True
RenameDelete ==
    /\ pc = "rename_delete"
    /\ requests' = Append(requests, Request("delete", Alias, "", 0))
    /\ \E r \in {"deleted", "exception"} :
          /\ r = "deleted" => Alias \in indices
          /\ IF r = "deleted"
             THEN /\ indices' = indices \ {Alias}
                  /\ docs' = [docs EXCEPT ![Alias] = 0]
                  /\ RenameReturns
             ELSE /\ RenameRaises
                  /\ UNCHANGED <<indices, docs>>
    /\ UNCHANGED <<aliasBound, aliasWrite, creation, entry, delete_old,
                   renameCalls, reindexVars, trackVars, cutoverVars,
                   index_names, latest_index, stepVars>>

\* the direct caller calls rename_index_if_needed once more
RenameAgain ==
    /\ pc = "rename_returned"
    /\ renameCalls + 1 < MaxRenameCalls
    /\ renameCalls' = renameCalls + 1
    /\ pc' = "rename_index_if_needed"
    /\ UNCHANGED <<clusterVars, entry, old_index, delete_old, exitCode,
                   uncaught, reindexVars, trackVars, cutoverVars, lookupVars,
                   requests, stepVars>>

(* ---------------------------------------------------------------------- *)
(* reindex_data_async                                                      *)
(* ---------------------------------------------------------------------- *)

\* get_doc_count(source_index), the empty-source return, the estimate and
\* the refusal of an oversized source
ReindexCount ==
    /\ pc = "reindex_data_async"
    /\ \E r \in {"count", "exception"} :
          /\ r = "count" => source_index \in indices
          /\ LET n == IF r = "count" THEN docs[source_index]
                      ELSE DocCountOnFailure
                 p == estimate_reindex_params(n)
             IN  /\ countFailed' = (r = "exception")
                 /\ doc_count' = n
                 /\ IF NothingToMigrate(n)
                    THEN /\ ReindexReturns("True")
                         /\ UNCHANGED <<slices, timeout, poll_interval>>
                    ELSE /\ slices' = p[1]
                         /\ timeout' = p[2]
                         /\ poll_interval' = p[3]
                         /\ IF RefusesAutoReindex(p[1])
                            THEN ReindexReturns("False")
                            ELSE /\ pc' = "start_reindex_async"
                                 /\ UNCHANGED <<exitCode, uncaught,
                                                reindexResult>>
    /\ UNCHANGED <<clusterVars, mainVars, source_index, dest_index, caller,
                   reindexCalls, trackVars, cutoverVars, lookupVars,
                   requests, stepVars>>

\* start_reindex_async(source_index, dest_index, slices) and the check of
\* the task id
ReindexStart ==
    /\ pc = "start_reindex_async"
    /\ reindexCalls' = reindexCalls + 1
    /\ requests' = Append(requests,
                      Request("reindex", dest_index, source_index, slices))
    /\ \E r \in {"task", "exception"} :
          /\ r = "task" => source_index \in indices /\ dest_index \in indices
          /\ IF r = "task"
             THEN /\ pc' = "track_task_status"
                  /\ UNCHANGED <<exitCode, uncaught, reindexResult>>
             ELSE ReindexReturns("False")
    /\ UNCHANGED <<clusterVars, mainVars, source_index, dest_index, caller,
                   countFailed, doc_count, slices, timeout, poll_interval,
                   trackVars, cutoverVars, lookupVars, stepVars>>

(* ---------------------------------------------------------------------- *)
(* track_task_status                                                       *)
(* ---------------------------------------------------------------------- *)

\* an exception of es.tasks.list that leaves get_reindex_slice_status and
\* ends the loop with False
SliceVerdictPropagates(sl) == IF sl = "exception" THEN "False" ELSE "none"

\* get_reindex_slice_status: what its outcome makes track_task_status
\* return; it catches its own exceptions, so nothing: the loop goes on
SliceVerdict(sl) == "none"

\* one turn of the loop: es.tasks.get, the verdict on its answer, and for
\* a task still running get_reindex_slice_status, the sleep and the
\* advance of elapsed
TrackPoll ==
    /\ pc = "track_task_status"
    /\ LoopContinues(elapsed, timeout)
    /\ statusPolls' = statusPolls + 1
    /\ \E resp \in StatusResponses, sl \in SliceOutcomes :
          LET listed == resp = "running"
              verdict == IF StatusVerdict(resp) # "none"
                         THEN StatusVerdict(resp)
                         ELSE IF listed THEN SliceVerdict(sl) ELSE "none"
          IN  /\ lastStatus' = resp
              /\ lastSlice' = IF listed THEN sl ELSE lastSlice
              /\ tasksListCalls' = IF listed THEN tasksListCalls + 1
                                   ELSE tasksListCalls
              /\ docs' = IF resp = "completed"
                         THEN [docs EXCEPT ![dest_index] = docs[source_index]]
                         ELSE docs
              /\ IF verdict = "none"
                 THEN /\ elapsed' = elapsed + poll_interval
                      /\ UNCHANGED <<pc, exitCode, uncaught, reindexResult,
                                     trackResult>>
                 ELSE /\ TrackReturns(verdict)
                      /\ UNCHANGED elapsed
    /\ UNCHANGED <<indices, aliasBound, aliasWrite, creation, mainVars,
                   source_index, dest_index, caller, countFailed, doc_count,
                   slices, timeout, poll_interval, reindexCalls, cutoverVars,
                   lookupVars, requests, stepVars>>

\* the loop ends because elapsed reached timeout
TrackTimeout ==
    /\ pc = "track_task_status"
    /\ ~LoopContinues(elapsed, timeout)
    /\ TrackReturns("False")
    /\ UNCHANGED <<clusterVars, mainVars, source_index, dest_index, caller,
                   countFailed, doc_count, slices, timeout, poll_interval,
                   reindexCalls, elapsed, lastStatus, lastSlice, statusPolls,
                   tasksListCalls, cutoverVars, lookupVars, requests,
                   stepVars>>

(* ---------------------------------------------------------------------- *)
(* update_alias_to_new_index                                               *)
(* ---------------------------------------------------------------------- *)

\* es.indices.get_alias(name=alias): the bound indexes, none when the
\* alias is not found; any other exception leaves the function
CutoverRead ==
    /\ pc = "update_alias_to_new_index"
    /\ bound0' = aliasBound
    /\ \E r \in {"bindings", "NotFoundError", "exception"} :
          CASE r = "bindings" ->
                  /\ aliasBound # {}
                  /\ old_indices' = KeysList(aliasBound)
                  /\ pc' = "update_aliases"
                  /\ UNCHANGED <<exitCode, uncaught, cutoverResult>>
            [] r = "NotFoundError" ->
                  /\ aliasBound = {}
                  /\ old_indices' = <<>>
                  /\ pc' = "update_aliases"
                  /\ UNCHANGED <<exitCode, uncaught, cutoverResult>>
            [] r = "exception" ->
                  /\ cutoverResult' = "raised"
                  /\ Exit(1, TRUE)
                  /\ UNCHANGED old_indices
    /\ UNCHANGED <<clusterVars, mainVars, reindexVars, trackVars,
                   aliasRequests, lookupVars, requests, stepVars>>

\* the one es.indices.update_aliases request, which the cluster applies as
\* a whole or not at all, and main's check of the result
CutoverUpdate ==
    /\ pc = "update_aliases"
    /\ LET acts == CutoverActions(old_indices, NewIndex)
       IN  /\ aliasRequests' = Append(aliasRequests, acts)
           /\ requests' = Append(requests,
                             Request("update_aliases", NewIndex, "", 0))
           /\ \E r \in {"acknowledged", "exception"} :
                 IF r = "acknowledged"
                 THEN /\ AliasActionsAccepted(acts)
                      /\ aliasBound' = BoundAfter(acts, aliasBound)
                      /\ aliasWrite' = WriteAfter(acts, aliasWrite)
                      /\ cutoverResult' = "True"
                      /\ IF delete_old /\ old_index # ""
                         THEN /\ pc' = "delete_old_index"
                              /\ UNCHANGED <<exitCode, uncaught>>
                         ELSE Exit(0, FALSE)
                 ELSE /\ cutoverResult' = "False"
                      /\ Exit(1, FALSE)
                      /\ UNCHANGED <<aliasBound, aliasWrite>>
    /\ UNCHANGED <<indices, docs, creation, mainVars, reindexVars,
                   trackVars, old_indices, bound0, lookupVars, stepVars>>

(* ---------------------------------------------------------------------- *)
(* main, after the cutover                                                 *)
(* ---------------------------------------------------------------------- *)

\* main, step 3: delete_old_index(old_index) and the exit
DeleteOldIndex ==
    /\ pc = "delete_old_index"
    /\ requests' = Append(requests, Request("delete", old_index, "", 0))
    /\ \E r \in {"deleted", "NotFoundError", "exception"} :
          /\ r = "deleted" => old_index \in indices
          /\ r = "NotFoundError" => old_index \notin indices
          /\ IF r = "deleted"
             THEN /\ indices' = indices \ {old_index}
                  /\ docs' = [docs EXCEPT ![old_index] = 0]
                  /\ aliasBound' = aliasBound \ {old_index}
                  /\ aliasWrite' = aliasWrite \ {old_index}
                  /\ deleteResult' = "True"
                  /\ Exit(0, FALSE)
             ELSE /\ deleteResult' = "False"
                  /\ Exit(1, FALSE)
                  /\ UNCHANGED <<indices, docs, aliasBound, aliasWrite>>
    /\ UNCHANGED <<creation, mainVars, reindexVars, trackVars, cutoverVars,
                   lookupVars, createResult>>

Next ==
    \/ MainStart
    \/ LookupExistsAlias
    \/ LookupGetAlias
    \/ LookupGetMetadata
    \/ LookupStats
    \/ RenameProbeAlias
    \/ RenameCheckName
    \/ RenameCheckNew
    \/ RenameCreate
    \/ RenameDelete
    \/ RenameAgain
    \/ CreateNewIndex
    \/ ReindexCount
    \/ ReindexStart
    \/ TrackPoll
    \/ TrackTimeout
    \/ CutoverRead
    \/ CutoverUpdate
    \/ DeleteOldIndex
    \/ EstimateCall

Spec == Init /\ [][Next]_vars

\* the process keeps running until it exits
FairSpec == Spec /\ WF_vars(Next)

TypeOK ==
    /\ entry \in {"main", "track", "estimate", "rename"}
    /\ pc \in {"main", "estimate_reindex_params", "create_new_index",
               "reindex_data_async", "start_reindex_async",
               "track_task_status", "update_alias_to_new_index",
               "update_aliases", "delete_old_index", "done",
               "get_latest_index_by_alias", "get_alias", "indices_get",
               "indices_stats", "rename_index_if_needed",
               "check_index_exists", "check_new_name", "rename_create",
               "rename_delete", "rename_returned"}
    /\ old_index \in Names \cup {""}
    /\ resolved \in Names \cup {"none", "None"}
    /\ caller \in {"none", "main", "rename"}
    /\ Len(requests) <= 7
    /\ indices \subseteq Names
    /\ aliasBound \subseteq indices
    /\ aliasWrite \subseteq aliasBound
    /\ exitCode \in {-1, 0, 1}
    /\ reindexResult \in {"none", "True", "False"}
    /\ trackResult \in {"none", "True", "False"}
    /\ cutoverResult \in {"none", "True", "False", "raised"}

(* ---------------------------------------------------------------------- *)
(* Properties                                                              *)
(* ---------------------------------------------------------------------- *)

\* update_alias_to_new_index has read the bindings, or has ended
CutoverEntered == pc = "update_aliases" \/ cutoverResult # "none"

\* the indexes a request removes from the alias, and those it adds
RemovedBy(acts) == {acts[k].index : k \in {j \in 1..Len(acts) : acts[j].op = "remove"}}
AddedBy(acts) == {acts[k].index : k \in {j \in 1..Len(acts) : acts[j].op = "add"}}

\* C1: cutover atomicity. From the moment update_alias_to_new_index has
\* read the bindings, every state a reader of the alias can observe has the
\* alias bound either to exactly the old indexes or to exactly new_index:
\* an alias that was bound is never unbound, it is never bound to an old
\* index and new_index together, and at most one update_aliases request is
\* issued, which removes every old index and adds new_index.
CutoverAtomic ==
    CutoverEntered =>
        /\ aliasBound = bound0 \/ aliasBound = {NewIndex}
        /\ bound0 # {} => aliasBound # {}
        /\ ~(NewIndex \in aliasBound /\ (aliasBound \cap bound0) \ {NewIndex} # {})
        /\ Len(aliasRequests) <= 1
        /\ \A k \in 1..Len(aliasRequests) :
              /\ RemovedBy(aliasRequests[k]) = bound0
              /\ AddedBy(aliasRequests[k]) = {NewIndex}
              /\ Len(aliasRequests[k]) = Cardinality(bound0) + 1

\* C1 witness: an alias bound to two old indexes has been switched
CutoverAtomicWitness ==
    /\ cutoverResult = "True"
    /\ Cardinality(bound0) = 2
    /\ aliasBound = {NewIndex}

\* C2: main issues the alias update only after the copy is verified
\* complete: the tracker saw the task completed without error, or the old
\* index holds no document; an alias that was switched points to an index
\* that holds the documents of the old one.
CutoverOnlyAfterVerifiedCopy ==
    /\ aliasRequests # <<>> =>
          \/ trackResult = "True" /\ lastStatus = "completed"
          \/ docs[old_index] = 0
    /\ (cutoverResult = "True" /\ pc = "update_aliases") =>
          docs[NewIndex] = docs[old_index]

\* C3: a cutover that did not succeed returned False to its caller and
\* left the bindings of the alias as they were.
CutoverFailureReported ==
    (cutoverResult # "none" /\ cutoverResult # "True") =>
        /\ cutoverResult = "False"
        /\ aliasBound = bound0

\* C4: after a successful cutover the alias is bound to new_index alone,
\* which is its write-index; the alias never has two write-indexes.
CutoverSoleWriteIndex ==
    /\ Cardinality(aliasWrite) <= 1
    /\ cutoverResult = "True" =>
          /\ aliasBound = {NewIndex}
          /\ aliasWrite = {NewIndex}

\* C4 witness: a bound alias was switched and new_index is the write-index
CutoverSoleWriteIndexWitness ==
    /\ cutoverResult = "True"
    /\ bound0 = {"products_v1"}
    /\ aliasWrite = {NewIndex}
    /\ pc = "done"

\* estimate_reindex_params has been applied to doc_count
Estimated ==
    \/ entry = "estimate" /\ pc = "done"
    \/ entry = "main" /\ doc_count > 0

\* C5: the estimator returns the rows of the table: below each threshold
\* the row of that range, at the threshold the next row, and (0, 0, 0) from
\* 100,000,000 documents on.
EstimatorMatchesTable ==
    Estimated =>
        LET p == <<slices, timeout, poll_interval>>
        IN  /\ doc_count >= 0
            /\ doc_count <= 99999 => p = <<1, 300, 5>>
            /\ (100000 <= doc_count /\ doc_count <= 999999) => p = <<4, 600, 10>>
            /\ (1000000 <= doc_count /\ doc_count <= 4999999) => p = <<8, 1800, 15>>
            /\ (5000000 <= doc_count /\ doc_count <= 49999999) => p = <<16, 7200, 30>>
            /\ (50000000 <= doc_count /\ doc_count <= 99999999) => p = <<32, 10800, 45>>
            /\ 100000000 <= doc_count => p = <<0, 0, 0>>

\* C5 witness: the estimate at the last threshold below the refusal
EstimatorMatchesTableWitness ==
    /\ Estimated
    /\ doc_count = 99999999
    /\ slices = 32

\* track_task_status has returned
TrackEnded == trackResult # "none"

\* the three ways of ending the claim names
EndedCompleted == trackResult = "True" /\ lastStatus = "completed"
EndedFailed == trackResult = "False" /\ lastStatus = "completed_error"
EndedTimedOut ==
    /\ trackResult = "False"
    /\ lastStatus \in {"none", "running"}
    /\ elapsed >= timeout

\* the fourth way: the status query raised
EndedUnreachable ==
    /\ trackResult = "False"
    /\ lastStatus = "exception"

\* C6 as stated: every run that ended is Completed, Failed or TimedOut.
TrackEndsInThreeStates ==
    TrackEnded => EndedCompleted \/ EndedFailed \/ EndedTimedOut

\* C6: every run of track_task_status (poll_interval > 0) ends, and ends
\* in one of four ways: Completed on a poll answering completed without
\* error (returns True), Failed on a poll answering completed with an
\* error, TimedOut when elapsed reached timeout with neither seen, or at
\* once when the status query raised (all three return False).
TrackEndsInFourStates ==
    /\ [](TrackEnded =>
            EndedCompleted \/ EndedFailed \/ EndedTimedOut \/ EndedUnreachable)
    /\ [](TrackEnded /\ lastStatus = "completed" => trackResult = "True")
    /\ ((pc = "track_task_status" /\ poll_interval > 0) ~> TrackEnded)

\* C6 witness: the task ended with an error after some polls
TrackEndsWitness ==
    /\ EndedFailed
    /\ statusPolls = 3

\* C7: elapsed is poll_interval times the polls made so far at every turn
\* of the loop; a run that timed out made ceil(timeout / poll_interval)
\* polls, which for the estimator's rows is 60, 60, 120, 240 and 240.
TimedOutPollCount ==
    /\ pc = "track_task_status" => elapsed = poll_interval * statusPolls
    /\ (TrackEnded /\ EndedTimedOut) =>
          /\ statusPolls = (timeout + poll_interval - 1) \div poll_interval
          /\ entry = "main" =>
                statusPolls = CASE slices = 1 -> 60
                                [] slices = 4 -> 60
                                [] slices = 8 -> 120
                                [] slices = 16 -> 240
                                [] slices = 32 -> 240
                                [] OTHER -> -1

\* C7 witness: a timeout that is no multiple of the poll interval
TimedOutPollCountWitness ==
    /\ EndedTimedOut
    /\ timeout = 5
    /\ poll_interval = 3
    /\ statusPolls = 2

\* C8: with 100,000,000 documents or more in the source,
\* reindex_data_async returns False and no reindex request, no task-status
\* request and no tasks-list request is issued.
OversizedNeverReindexed ==
    (entry = "main" /\ doc_count >= 100000000) =>
        /\ reindexResult = "False"
        /\ reindexCalls = 0
        /\ statusPolls = 0
        /\ tasksListCalls = 0

\* C8 witness: 150,000,000 documents were refused
OversizedNeverReindexedWitness ==
    /\ entry = "main"
    /\ doc_count = 150000000
    /\ reindexResult = "False"
    /\ exitCode = 1

\* C9: when the count of the source is 0, or the count query failed (which
\* counts as 0), reindex_data_async returns True at once and issues no
\* reindex request and no task-status poll.
EmptySourceIsNoOp ==
    /\ countFailed => doc_count = 0
    /\ (entry = "main" /\ (doc_count = 0 \/ countFailed)) =>
          /\ reindexResult = "True"
          /\ reindexCalls = 0
          /\ statusPolls = 0
          /\ tasksListCalls = 0

\* C9 witness: the count query failed on a source that holds documents
EmptySourceIsNoOpWitness ==
    /\ countFailed
    /\ source_index \in indices
    /\ docs[source_index] = 50000
    /\ reindexResult = "True"

\* C10: a status query that raises ends track_task_status at once with
\* False: the function has returned in the state that follows, and no
\* status or tasks-list request is issued from then on.
StatusExceptionIsTerminal ==
    /\ [](lastStatus = "exception" =>
            /\ trackResult = "False"
            /\ pc # "track_task_status")
    /\ [][lastStatus = "exception" =>
            /\ statusPolls' = statusPolls
            /\ tasksListCalls' = tasksListCalls
            /\ trackResult' = "False"]_vars

\* C10 witness: the third status query raised, long before the timeout
StatusExceptionIsTerminalWitness ==
    /\ lastStatus = "exception"
    /\ statusPolls = 3
    /\ elapsed < timeout
    /\ trackResult = "False"

\* C11: the verdict of the tracker does not depend on the progress query:
\* what a poll does to the result, to elapsed and to the number of polls
\* is fixed by the answer of es.tasks.get alone; after a running answer
\* the loop goes on by one poll interval whether es.tasks.list found
\* sub-tasks, found none or raised.
VerdictIgnoresSliceStatus ==
    [][statusPolls' = statusPolls + 1 =>
          /\ lastStatus' = "running" =>
                /\ trackResult' = "none"
                /\ pc' = "track_task_status"
                /\ elapsed' = elapsed + poll_interval
                /\ lastSlice' \in SliceOutcomes
          /\ lastStatus' = "completed" => trackResult' = "True"
          /\ lastStatus' \in {"completed_error", "exception"} =>
                trackResult' = "False"]_vars

\* C11 witness: the progress query raised and the task completed on the
\* next poll
VerdictIgnoresSliceStatusWitness ==
    /\ lastSlice = "exception"
    /\ statusPolls = 2
    /\ trackResult = "True"

\* the tracker has seen the end of the task, or the end of its patience
TrackTerminal ==
    \/ lastStatus \in {"completed", "completed_error"}
    \/ pc = "track_task_status" /\ elapsed >= timeout
    \/ trackResult # "none"

\* C12: from the moment the tracker is in a terminal state no request
\* about the task is issued: no status poll and no tasks-list query
\* (the counters only change when the next reindex_data_async starts with
\* a task of its own), and no request other than create, reindex,
\* update_aliases and delete is ever issued, so the task is never
\* cancelled.
TerminalIsFinal ==
    /\ [][TrackTerminal =>
            \/ statusPolls' = statusPolls /\ tasksListCalls' = tasksListCalls
            \/ pc' = "reindex_data_async"]_vars
    /\ [](\A k \in 1..Len(requests) :
            requests[k].op \in {"create", "reindex", "update_aliases", "delete"})

\* C12 witness: the script gave up on a task that never completed; the
\* last request it issued is the launch of that task
TerminalIsFinalWitness ==
    /\ entry = "main"
    /\ EndedTimedOut
    /\ pc = "done"
    /\ statusPolls = 60
    /\ requests[Len(requests)].op = "reindex"

\* C13: while name is an alias, rename_index_if_needed issues no mutating
\* request, on the first call and on every later one.
RenameOfAliasIsNoOp ==
    (entry = "rename" /\ aliasBound # {}) =>
        /\ requests = <<>>
        /\ pc \in {"rename_index_if_needed", "rename_returned", "done"}

\* C13 witness: the second call on an alias has returned
RenameOfAliasIsNoOpWitness ==
    /\ entry = "rename"
    /\ aliasBound # {}
    /\ renameCalls = 1
    /\ pc = "rename_returned"

\* name is a bare index and an index of the suffixed name exists that
\* was not created by this run
BareAndSuffixed ==
    /\ Alias \in indices
    /\ Suffixed(Alias) \in indices
    /\ creation[Suffixed(Alias)] # LateDate

\* C14: with a bare index name and an existing index name + suffix,
\* rename_index_if_needed ends the whole workflow before any mutating
\* request: it never returns, and no create, reindex or delete request is
\* issued.
SuffixedTakenAborts ==
    BareAndSuffixed =>
        /\ requests = <<>>
        /\ pc # "rename_returned"
        /\ resolved \in {"none", "None"}

\* the number of the value in a creation_date
DateValue(d) ==
    CASE d = <<9>> -> 9
      [] d = <<1, 0>> -> 10
      [] d = <<1, 1>> -> 11

\* the requests rename_index_if_needed issues for a bare index, up to the
\* launch of the copy
BootstrapRequests(n) ==
    <<Request("create", Suffixed(Alias), "", 0),
      Request("reindex", Suffixed(Alias), Alias,
              IF n < 100000 THEN 1 ELSE IF n < 1000000 THEN 4
              ELSE IF n < 5000000 THEN 8 ELSE IF n < 50000000 THEN 16
              ELSE 32)>>

\* C15: bootstrap. When rename_index_if_needed comes to delete a bare
\* index that holds documents, it has issued create(name + suffix) and
\* then one reindex from name to name + suffix with the parallelism of the
\* table, and has seen that task completed without error; once the delete
\* is done no index has the alias's name when the alias update is sent.
BootstrapOrder ==
    /\ (pc = "rename_delete" /\ docs[Alias] > 0) =>
          /\ requests = BootstrapRequests(docs[Alias])
          /\ trackResult = "True"
          /\ lastStatus = "completed"
    /\ (pc = "update_aliases" /\ resolved = Suffixed(Alias)
          /\ \E k \in 1..Len(requests) :
                requests[k] = Request("delete", Alias, "", 0)) =>
          Alias \notin indices

\* get_latest_index_by_alias has just returned a name
LookupReturnedName ==
    /\ pc = "create_new_index"
    /\ resolved \notin {"none", "None"}

\* C16: the index returned for a bound alias is bound to it and no bound
\* index has a later creation date, the dates compared as numbers.
LatestIsNewest ==
    (LookupReturnedName /\ index_names # <<>>) =>
        /\ resolved \in aliasBound
        /\ \A i \in aliasBound :
              DateValue(creation[i]) <= DateValue(creation[resolved])

\* C16 witness: of two bound indexes the one with the date "10" is
\* returned, not the one with the date "9"
LatestIsNewestWitness ==
    /\ LookupReturnedName
    /\ aliasBound = {"products_v1", "products_v2"}
    /\ creation["products_v1"] = <<1, 0>>
    /\ creation["products_v2"] = <<9>>
    /\ resolved = "products_v1"

\* C17: when the alias exists and the listing of its indexes names none,
\* get_latest_index_by_alias returns None; for an alias that exists it
\* returns nothing but an index bound to it.
LookupNoneWithoutIndexes ==
    /\ (pc \in {"create_new_index", "done"} /\ resolved # "none"
          /\ aliasBound # {} /\ index_names = <<>>) =>
          resolved = "None"
    /\ (LookupReturnedName /\ aliasBound # {}) => resolved \in aliasBound

\* the steps of main that failed
ResolveFailed == resolved = "None" \/ (pc = "done" /\ old_index = "")
CreateFailed == createResult \in {"False", "raised"}
MigrationFailed == caller = "main" /\ reindexResult = "False"
CutoverFailed == cutoverResult \in {"False", "raised"}
DeleteFailed == deleteResult = "False"

\* C18: exit code 0 is reached only when the old index was resolved, the
\* new index created, the migration and the cutover returned success and,
\* with --delete_old, the old index was deleted; a step that fails ends
\* the process with exit code 1 and none of the later steps is executed.
ExitCodeReflectsSteps ==
    entry = "main" =>
        /\ pc = "done" => exitCode \in {0, 1}
        /\ exitCode = 0 =>
              /\ old_index # ""
              /\ createResult = "True"
              /\ caller = "main" /\ reindexResult = "True"
              /\ cutoverResult = "True"
              /\ delete_old => deleteResult = "True"
        /\ (ResolveFailed \/ CreateFailed \/ MigrationFailed
               \/ CutoverFailed \/ DeleteFailed) => exitCode = 1
        /\ ResolveFailed => createResult = "none"
        /\ (ResolveFailed \/ CreateFailed) => caller # "main"
        /\ (ResolveFailed \/ CreateFailed \/ MigrationFailed) =>
              /\ cutoverResult = "none"
              /\ aliasRequests = <<>>
        /\ (ResolveFailed \/ CreateFailed \/ MigrationFailed
               \/ CutoverFailed) => deleteResult = "none"

\* C18 witness: a run with --delete_old that looked the old index up has
\* ended with exit code 0
ExitCodeReflectsStepsWitness ==
    /\ entry = "main"
    /\ exitCode = 0
    /\ delete_old
    /\ deleteResult = "True"
    /\ resolved = "products_v2"
    /\ trackResult = "True"

\* C19: no data loss in the rename. When rename_index_if_needed comes to
\* delete the original index, either the reindex task to name + suffix was
\* seen completed without error or the index truly holds no document, and
\* name + suffix holds as many documents as name.
RenameDeletesOnlyAfterCopy ==
    pc = "rename_delete" =>
        /\ \/ trackResult = "True" /\ lastStatus = "completed"
           \/ docs[Alias] = 0
        /\ docs[Suffixed(Alias)] = docs[Alias]

\* C20: a name returned by get_latest_index_by_alias is the name of an
\* index that exists, whether the alias was bound and its indexes were
\* listed, or the alias was absent, with or without a bare index of its
\* name.
LookupReturnsExistingIndex ==
    (LookupReturnedName /\ (index_names # <<>> \/ aliasBound = {})) =>
        resolved \in indices

====
